---- MODULE Spec2Model ----
(***************************************************************************)
(* YahooSearchDAO (src/services/yahoo_search_dao.py): four coroutine       *)
(* methods, each decorated with retry(exceptions=SQLAlchemyError, tries=5) *)
(* and each running one statement inside `async with engine.begin()`.      *)
(*                                                                         *)
(* A call is a coroutine; its steps are the stretches of code between two  *)
(* awaits (connection acquisition, statement execution, commit/rollback at *)
(* scope exit), and the steps of different calls interleave freely.        *)
(*                                                                         *)
(* Values.  A timestamp is <<sec, usec>>, a NULL timestamp is <<>>, and    *)
(* the text produced by strftime("%Y-%m-%d %H:%M:%S") is <<sec>>: it has   *)
(* no sub-second part.  A fetch returns a list in the order the database   *)
(* chooses; the model keeps the set of its elements.                       *)
(***************************************************************************)
EXTENDS Integers, FiniteSets, Sequences, TLC

VARIABLES search_results, users, schema, call, outage, scriptN, version

vars == <<search_results, users, schema, call, outage, scriptN, version>>

\* ---------------------------------------------------------------- bounds
MaxCalls == 2
MaxOutage == 1

\* -------------------------------------------------- constants of the code
Tries == 5

Calls == 1..MaxCalls

\* ------------------------------------------------------------ input data
InjectionTerm == "O'Brien'; DROP TABLE users;--"

SearchRecords ==
    { [search_id |-> "s1", user_id |-> "u1", search_term |-> "cats",
       result |-> "r1", created_at |-> <<1, 0>>],
      [search_id |-> "s1", user_id |-> "u2", search_term |-> InjectionTerm,
       result |-> "r2", created_at |-> <<1, 500000>>],
      [search_id |-> "s2", user_id |-> "u1", search_term |-> InjectionTerm,
       result |-> "r1", created_at |-> <<2, 999999>>],
      [search_id |-> "s3", user_id |-> "u2", search_term |-> "cats",
       result |-> "r2", created_at |-> <<>>] }

UserRecords ==
    { [user_id |-> "u1", created_at |-> <<0, 0>>],
      [user_id |-> "u1", created_at |-> <<3, 250000>>],
      [user_id |-> "u2", created_at |-> <<>>] }

Inserts == {"insert_search", "insert_user"}
Fetches == {"fetch_all_searches", "fetch_all_users"}
Operations == Inserts \cup Fetches

NoArg == [search_id |-> "", user_id |-> "", search_term |-> "",
          result |-> "", created_at |-> <<>>]

ArgsOf(o) ==
    CASE o = "insert_search" -> SearchRecords
      [] o = "insert_user" -> UserRecords
      [] OTHER -> {NoArg}

NoError == "none"

\* ------------------------------------------------------- retry decorator
\* exceptions=SQLAlchemyError: the database layer's errors.
IsSQLAlchemyError(e) == e \in {"OperationalError", "IntegrityError"}

\* The decorator's loop is `try: return f()`.  Every decorated method is an
\* `async def`, so f() only builds the coroutine object and returns it; the
\* body runs later, when the caller awaits that object, after the loop has
\* returned.  Only the phase "create" runs inside the loop's try block.
InsideRetryLoop(phase) == phase = "create"

ShouldRetryAlways(r, e, phase) == r.tries > 1

ShouldRetry(r, e, phase) ==
    InsideRetryLoop(phase) /\ IsSQLAlchemyError(e) /\ r.tries > 1

\* No method has a try/except of its own: the exception object leaves the
\* coroutine as it was raised.
PropagateWrapped(e) == "PersistenceError"

Propagate(e) == e

\* What happens to a call whose attempt raised e during `phase`.
AfterFailure(r, e, phase) ==
    IF ShouldRetry(r, e, phase)
    THEN [r EXCEPT !.pc = "created", !.tries = @ - 1, !.prevErr = e,
                   !.thrown = NoError]
    ELSE [r EXCEPT !.pc = "raised", !.err = Propagate(e)]

\* ------------------------------------------------- engine.begin() scope
\* __aenter__: one pooled connection, one transaction.
AEnter(r) == [r EXCEPT !.conn = TRUE, !.tx = "open", !.attempts = @ + 1]

AExitLeak(r, failed) ==
    [r EXCEPT !.tx = IF failed THEN "rolledback" ELSE "committed",
              !.conn = failed,
              !.pending = {}]

\* __aexit__: commit without an exception, roll back with one; the
\* connection goes back to the pool either way.
AExit(r, failed) ==
    [r EXCEPT !.tx = IF failed THEN "rolledback" ELSE "committed",
              !.conn = FALSE,
              !.pending = {}]

CheckedOut == Cardinality({c \in Calls : call[c].conn})

\* ------------------------------------------------------------ statements
BindSearchSwapped(result) ==
    [search_id |-> result.user_id, user_id |-> result.search_id,
     search_term |-> result.search_term, result |-> result.result,
     created_at |-> result.created_at]

\* The parameter dictionary of insert_search.
BindSearch(result) ==
    [search_id |-> result.search_id, user_id |-> result.user_id,
     search_term |-> result.search_term, result |-> result.result,
     created_at |-> result.created_at]

BindUserNoTime(user) == [user_id |-> user.user_id, created_at |-> <<>>]

\* The parameter dictionary of insert_user.
BindUser(user) == [user_id |-> user.user_id, created_at |-> user.created_at]

HasSqlMeta(term) == term = InjectionTerm

\* The text of each method's statement: a literal.
StatementText(o) ==
    CASE o = "insert_search" -> "INSERT INTO search_results"
      [] o = "insert_user" -> "INSERT INTO users"
      [] o = "fetch_all_searches" -> "SELECT FROM search_results"
      [] OTHER -> "SELECT FROM users"

SentStatementsInterpolated(o, params) ==
    IF o = "insert_search" /\ HasSqlMeta(params.search_term)
    THEN {StatementText(o), "DROP TABLE users"}
    ELSE {StatementText(o)}

\* The statements the server parses for one execute(): the literal text
\* alone; the caller's values travel beside it as bound named parameters.
SentStatements(o, params) == {StatementText(o)}

KeyOf(o, row) == IF o = "insert_search" THEN row.search_id ELSE row.user_id

TableOf(o) ==
    IF o \in {"insert_search", "fetch_all_searches"} THEN search_results ELSE users

\* search_id and user_id are the primary keys of their tables.
PrimaryKeyViolation(o, row) ==
    \E old \in TableOf(o) : KeyOf(o, old) = KeyOf(o, row)

\* An uncommitted insert of the same key by another transaction holds the
\* key's lock: the statement waits until that transaction ends.
KeyLocked(c, o, row) ==
    \E d \in Calls \ {c} :
        /\ call[d].op = o
        /\ \E p \in call[d].pending : KeyOf(o, p) = KeyOf(o, row)

\* ------------------------------------------------------------ row mapping
StrftimeMicros(ts) == ts

\* strftime("%Y-%m-%d %H:%M:%S"): whole seconds only.
Strftime(ts) == <<ts[1]>>

MapSearchRow(curr_row) ==
    [search_id |-> curr_row.search_id, user_id |-> curr_row.user_id,
     search_term |-> curr_row.search_term, result |-> curr_row.result,
     created_at |-> Strftime(curr_row.created_at)]

MapUserRow(curr_row) ==
    [user_id |-> curr_row.user_id, created_at |-> Strftime(curr_row.created_at)]

\* SearchResults.parse_obj / User.parse_obj: the record built from the
\* field-name-to-value mapping.
ParseObj(fields) == fields

MappingErrorFirstRow(rows) ==
    IF rows = {} THEN "IndexError"
    ELSE IF \E curr_row \in rows : curr_row.created_at = <<>>
    THEN "AttributeError" ELSE NoError

\* The list comprehension over the fetched rows: a NULL created_at has no
\* strftime, which raises AttributeError; an empty result maps to [].
MappingError(rows) ==
    IF \E curr_row \in rows : curr_row.created_at = <<>>
    THEN "AttributeError" ELSE NoError

MapRows(o, rows) ==
    IF o = "fetch_all_searches"
    THEN {ParseObj(MapSearchRow(curr_row)) : curr_row \in rows}
    ELSE {ParseObj(MapUserRow(curr_row)) : curr_row \in rows}

\* ------------------------------------------------------------------ state
IdleCall ==
    [op |-> "none", arg |-> NoArg, pc |-> "idle", tries |-> 0, attempts |-> 0,
     conn |-> FALSE, tx |-> "none", pending |-> {}, thrown |-> NoError,
     err |-> NoError, prevErr |-> NoError, ret |-> {}, ver |-> 0]

InFlightPcs == {"created", "begun", "executed", "unwinding"}

InFlight == {c \in Calls : call[c].pc \in InFlightPcs}

Init ==
    /\ search_results = {}
    /\ users = {}
    /\ schema = {"search_results", "users"}
    /\ call = [c \in Calls |-> IdleCall]
    /\ outage \in 0..MaxOutage
    /\ scriptN = outage
    /\ version = 0

\* ---------------------------------------------------------------- actions
\* The caller invokes a decorated method: the retry loop starts with
\* tries=5, calls the method once and hands back the coroutine it got.
Invoke(c, o, a) ==
    /\ call[c].pc = "idle"
    /\ \A d \in Calls : d < c => call[d].pc # "idle"
    /\ call' = [call EXCEPT ![c] =
                   [IdleCall EXCEPT !.op = o, !.arg = a, !.pc = "created",
                                    !.tries = Tries]]
    /\ UNCHANGED <<search_results, users, schema, outage, scriptN, version>>

\* async with self._engine.begin() as connection
Begin(c) ==
    /\ call[c].pc = "created"
    /\ call' = [call EXCEPT ![c] = [AEnter(@) EXCEPT !.pc = "begun"]]
    /\ UNCHANGED <<search_results, users, schema, outage, scriptN, version>>

\* The connectivity layer fails while the connection is being acquired.
BeginFault(c) ==
    /\ call[c].pc = "created"
    /\ outage > 0
    /\ outage' = outage - 1
    /\ call' = [call EXCEPT ![c] =
                   AfterFailure([@ EXCEPT !.attempts = @ + 1,
                                          !.thrown = "OperationalError"],
                                "OperationalError", "await")]
    /\ UNCHANGED <<search_results, users, schema, scriptN, version>>

\* await connection.execute(insert_clause, {...})
ExecuteInsert(c) ==
    /\ call[c].pc = "begun"
    /\ call[c].op \in Inserts
    /\ LET o == call[c].op
           row == IF o = "insert_search" THEN BindSearch(call[c].arg)
                  ELSE BindUser(call[c].arg)
       IN /\ ~KeyLocked(c, o, row)
          /\ call' = [call EXCEPT ![c] =
                IF PrimaryKeyViolation(o, row)
                THEN [@ EXCEPT !.pc = "unwinding", !.thrown = "IntegrityError"]
                ELSE [@ EXCEPT !.pc = "executed", !.pending = {row}]]
    /\ UNCHANGED <<search_results, users, schema, outage, scriptN, version>>

\* cursor = await connection.execute(text_clause); cursor.fetchall(); the
\* list comprehension that maps the rows.
ExecuteFetch(c) ==
    /\ call[c].pc = "begun"
    /\ call[c].op \in Fetches
    /\ LET o == call[c].op
           results == TableOf(o)
       IN call' = [call EXCEPT ![c] =
                IF MappingError(results) # NoError
                THEN [@ EXCEPT !.pc = "unwinding", !.thrown = MappingError(results),
                               !.ver = version]
                ELSE [@ EXCEPT !.pc = "executed", !.ret = MapRows(o, results),
                               !.ver = version]]
    /\ UNCHANGED <<search_results, users, schema, outage, scriptN, version>>

\* The connectivity layer fails during the statement's round trip.
ExecuteFault(c) ==
    /\ call[c].pc = "begun"
    /\ outage > 0
    /\ outage' = outage - 1
    /\ call' = [call EXCEPT ![c] =
                   [@ EXCEPT !.pc = "unwinding", !.thrown = "OperationalError"]]
    /\ UNCHANGED <<search_results, users, schema, scriptN, version>>

\* Leaving the scope without an exception: commit, release, return.
Commit(c) ==
    /\ call[c].pc = "executed"
    /\ LET o == call[c].op
           rows == call[c].pending
           dropped == IF "DROP TABLE users" \in SentStatements(o, call[c].arg)
                      THEN {"users"} ELSE {}
           wrote == rows # {} \/ dropped # {}
       IN /\ search_results' =
                IF o = "insert_search" THEN search_results \cup rows
                ELSE search_results
          /\ users' =
                IF "users" \in dropped THEN {}
                ELSE IF o = "insert_user" THEN users \cup rows ELSE users
          /\ schema' = schema \ dropped
          /\ version' = IF wrote THEN version + 1 ELSE version
          /\ call' = [call EXCEPT ![c] =
                [AExit(@, FALSE) EXCEPT
                    !.pc = "done",
                    !.ver = IF o \in Inserts THEN version' ELSE @]]
    /\ UNCHANGED <<outage, scriptN>>

\* Leaving the scope with an exception: roll back, release, and the
\* exception goes on to whoever is running the body.
Rollback(c) ==
    /\ call[c].pc = "unwinding"
    /\ call' = [call EXCEPT ![c] =
                   AfterFailure(AExit(@, TRUE), call[c].thrown, "await")]
    /\ UNCHANGED <<search_results, users, schema, outage, scriptN, version>>

Next ==
    \E c \in Calls :
        \/ \E o \in Operations : \E a \in ArgsOf(o) : Invoke(c, o, a)
        \/ Begin(c)
        \/ BeginFault(c)
        \/ ExecuteInsert(c)
        \/ ExecuteFetch(c)
        \/ ExecuteFault(c)
        \/ Commit(c)
        \/ Rollback(c)

Spec == Init /\ [][Next]_vars

Raised(c) == call[c].pc = "raised"
Done(c) == call[c].pc = "done"

\* ----------------------------------------------------------------- claims

\* C1: if the connectivity layer fails only on its first N < 5 round trips
\* and then succeeds, no call ends with the connectivity error (it succeeds
\* on a later attempt), and no call makes more than 5 attempts.
C1_RetryOnTransientFailure ==
    \A c \in Calls :
        /\ call[c].attempts <= Tries
        /\ scriptN < Tries => ~(Raised(c) /\ call[c].err = "OperationalError")

\* C2: an insert whose every attempt fails with a database error (a
\* duplicate identifier fails every time) raises only after its 5th failed
\* attempt, with its transaction rolled back and nothing of it written.
C2_RetryExhaustion ==
    \A c \in Calls :
        (call[c].op \in Inserts /\ Raised(c) /\ call[c].err = "IntegrityError")
        => /\ call[c].attempts = Tries
           /\ call[c].tx = "rolledback"
           /\ call[c].pending = {}

\* C3: a fetch that executes after a successful insert of a record with a
\* timestamp returns a record with the same identifiers, term and result
\* and with created_at the text of the timestamp's whole seconds; likewise
\* for users.
C3_RoundTrip ==
    \A i \in Calls : \A f \in Calls :
        LET a == call[i].arg IN
        /\ ( /\ call[i].op = "insert_search" /\ Done(i) /\ a.created_at # <<>>
             /\ call[f].op = "fetch_all_searches" /\ Done(f)
             /\ call[f].ver >= call[i].ver )
           => \E rec \in call[f].ret :
                 /\ rec.search_id = a.search_id
                 /\ rec.user_id = a.user_id
                 /\ rec.search_term = a.search_term
                 /\ rec.result = a.result
                 /\ rec.created_at = <<a.created_at[1]>>
        /\ ( /\ call[i].op = "insert_user" /\ Done(i) /\ a.created_at # <<>>
             /\ call[f].op = "fetch_all_users" /\ Done(f)
             /\ call[f].ver >= call[i].ver )
           => \E rec \in call[f].ret :
                 /\ rec.user_id = a.user_id
                 /\ rec.created_at = <<a.created_at[1]>>

C3_Witness ==
    \E i \in Calls : \E f \in Calls :
        /\ call[i].op = "insert_search" /\ Done(i)
        /\ call[i].arg.created_at # <<>> /\ call[i].arg.created_at[2] # 0
        /\ call[f].op = "fetch_all_searches" /\ Done(f)
        /\ call[f].ver >= call[i].ver

\* C4: a call holds a pooled connection and an open transaction exactly
\* while it is inside the scope; a transaction is committed only when
\* nothing was raised in the scope, a call that raised has no committed
\* transaction, and with no call in flight no connection is checked out
\* and no transaction is open.
C4_ScopedConnection ==
    /\ \A c \in Calls :
          /\ call[c].conn <=> call[c].pc \in {"begun", "executed", "unwinding"}
          /\ call[c].tx = "open" <=> call[c].pc \in {"begun", "executed", "unwinding"}
          /\ call[c].tx = "committed" => Done(c) /\ call[c].thrown = NoError
          /\ Done(c) => call[c].tx = "committed"
          /\ Raised(c) => call[c].tx \in {"none", "rolledback"}
    /\ CheckedOut <= Cardinality(InFlight)
    /\ InFlight = {} =>
          /\ CheckedOut = 0
          /\ \A c \in Calls : call[c].tx # "open"

C4_Witness ==
    /\ InFlight = {}
    /\ \E c \in Calls : Raised(c) /\ call[c].tx = "rolledback"
                         /\ call[c].err = "AttributeError"
    /\ \E c \in Calls : Done(c)

\* C5: an attempt after the first follows only a database-layer error, and
\* a call that fails with any other error has made exactly one attempt.
C5_RetryTrigger ==
    \A c \in Calls :
        /\ call[c].attempts > 1 => IsSQLAlchemyError(call[c].prevErr)
        /\ (Raised(c) /\ ~IsSQLAlchemyError(call[c].err)) => call[c].attempts = 1

C5_Witness ==
    \E c \in Calls :
        /\ Raised(c) /\ call[c].err = "AttributeError" /\ call[c].attempts = 1
        /\ call[c].op \in Fetches

C7_IdentifierUniqueness ==
    /\ \A r1 \in search_results : \A r2 \in search_results :
          r1.search_id = r2.search_id => r1 = r2
    /\ \A r1 \in users : \A r2 \in users :
          r1.user_id = r2.user_id => r1 = r2
    /\ \A c \in Calls : \A d \in Calls \ {c} :
          ( /\ call[c].op \in Inserts /\ call[d].op = call[c].op
            /\ KeyOf(call[c].op, call[c].arg) = KeyOf(call[d].op, call[d].arg) )
          => /\ ~(Done(c) /\ Done(d))
             /\ (Done(c) /\ Raised(d)) =>
                   /\ IsSQLAlchemyError(call[d].err)
                   /\ call[d].tx # "committed"

C7_Witness ==
    \E c \in Calls : \E d \in Calls \ {c} :
        /\ call[c].op = "insert_search" /\ call[d].op = "insert_search"
        /\ call[c].arg.search_id = call[d].arg.search_id
        /\ call[c].arg # call[d].arg
        /\ Done(c) /\ Raised(d) /\ call[d].err = "IntegrityError"

\* C8: the step that completes an insert_search call adds the record it was
\* given, field for field, as one new row of search_results and changes
\* neither users nor the schema; the step that completes insert_user adds
\* one row to users and changes nothing else.
C8_InsertEffectStep ==
    \A c \in Calls :
        LET a == call[c].arg IN
        /\ (call[c].op = "insert_search" /\ ~Done(c) /\ call'[c].pc = "done")
           => /\ a \notin search_results
              /\ search_results' = search_results \cup {a}
              /\ users' = users
              /\ schema' = schema
        /\ (call[c].op = "insert_user" /\ ~Done(c) /\ call'[c].pc = "done")
           => /\ a \notin users
              /\ users' = users \cup {a}
              /\ search_results' = search_results
              /\ schema' = schema

C8_InsertEffect == [][C8_InsertEffectStep]_vars

C8_Witness ==
    /\ users # {}
    /\ schema = {"search_results", "users"}
    /\ \E c \in Calls :
          /\ call[c].op = "insert_search" /\ Done(c)
          /\ call[c].arg.search_term = InjectionTerm
          /\ call[c].arg \in search_results

\* C9: no step of a fetch changes a table or the schema; two completed
\* fetches of one kind that read with no committed write between them
\* return the same records; a fetch that reads before anything was written
\* returns nothing and raises nothing but a connectivity error.
C9_FetchStep ==
    \A c \in Calls :
        (call[c].op \in Fetches /\ call'[c] # call[c])
        => /\ search_results' = search_results
           /\ users' = users
           /\ schema' = schema

C9_FetchResults ==
    /\ \A c \in Calls : \A d \in Calls :
          ( /\ call[c].op \in Fetches /\ call[d].op = call[c].op
            /\ Done(c) /\ Done(d) /\ call[c].ver = call[d].ver )
          => call[c].ret = call[d].ret
    /\ \A c \in Calls :
          (call[c].op \in Fetches /\ call[c].ver = 0)
          => /\ call[c].ret = {}
             /\ call[c].thrown \in {NoError, "OperationalError"}

C10_GrowStep ==
    /\ search_results \subseteq search_results'
    /\ users \subseteq users'

C10_RowsFromInserts ==
    /\ \A row \in search_results :
          \E c \in Calls : call[c].op = "insert_search" /\ Done(c)
                            /\ call[c].arg = row
    /\ \A row \in users :
          \E c \in Calls : call[c].op = "insert_user" /\ Done(c)
                            /\ call[c].arg = row

C10_AppendOnly == []C10_RowsFromInserts /\ [][C10_GrowStep]_vars

C10_Witness ==
    /\ users # {}
    /\ \E c \in Calls : Raised(c) /\ call[c].op = "insert_user"
                         /\ call[c].tx = "rolledback"

====
